---- MODULE Spec2Model ----
(***************************************************************************)
(* mdparser: the Lexer of src/src/lexer.ts and the recursive-descent       *)
(* Parser of src/unnamed/part_003 (parser.ts of the canonical pipeline).   *)
(*                                                                         *)
(* A JavaScript string is modelled as a sequence of one-character strings, *)
(* so "- a" is << "-", " ", "a" >>.  JavaScript indexes from 0, TLA+ from  *)
(* 1: input[p] of the source is input[p + 1] here.                         *)
(***************************************************************************)
EXTENDS Integers, Sequences, FiniteSets, TLC

VARIABLES input, lexer, calls, pc, currentToken, stack, ret, result, error,
          output, twin, statics, html

vars ==
    << input, lexer, calls, pc, currentToken, stack, ret, result, error, output,
       twin, statics, html >>

(***************************************************************************)
(* Bounds of the model.                                                    *)
(***************************************************************************)
MaxLen == 4        \* longest input drawn from the whole alphabet
MaxLines == 3      \* most lines of a list input
MaxHashes == 6     \* longest run of '#' of a header input
MaxBody == 3       \* most pieces in the body of a fenced block
MaxElems == 3      \* most elements between two emphasis delimiters
MaxCalls == 8      \* the counter of getNextToken calls saturates here
MaxDepth == 12     \* call-stack depth at which the runtime gives up

(***************************************************************************)
(* Characters.                                                             *)
(***************************************************************************)
NUL == "\\0"                 \* the end sentinel "\0" of Lexer.advance
Undefined == "undefined"     \* input[p] read outside the string; every use
                             \* in the lexer coerces it to this text
Backtick == "BACKTICK"      \* the character U+0060, which no TLA+ string holds
UndefinedChars == << "u", "n", "d", "e", "f", "i", "n", "e", "d" >>

Letters ==
    { "a", "b", "c", "d", "e", "f", "g", "h", "i", "j", "k", "l", "m",
      "n", "o", "p", "q", "r", "s", "t", "u", "v", "w", "x", "y", "z",
      "A", "B", "C", "D", "E", "F", "G", "H", "I", "J", "K", "L", "M",
      "N", "O", "P", "Q", "R", "S", "T", "U", "V", "W", "X", "Y", "Z" }

Digits == { "0", "1", "2", "3", "4", "5", "6", "7", "8", "9" }

\* utils.ts isAlphaNumeric: /^[A-Za-z0-9]+$/.test(str).  The lexer passes one
\* character, or undefined, which test() coerces to the text "undefined".
isAlphaNumeric(str) == str \in Letters \cup Digits \/ str = Undefined

\* The text a value contributes to `s += value`.
TextOf(c) == IF c = Undefined THEN UndefinedChars ELSE << c >>

(***************************************************************************)
(* Tokens.                                                                 *)
(***************************************************************************)
TokenType ==
    { "STRING", "SPACE", "NEWLINE", "BOLD", "ITALIC", "UNORDEREDLI",
      "HEADER1", "HEADER2", "HEADER3", "HEADER4", "HEADER5", "MONOSPACE",
      "CODE", "UNTYPED", "EOF", "LINEBREAK" }

Token(value, type) == [tokenValue |-> value, tokenType |-> type]

UntypedToken == Token(<< >>, "UNTYPED")

NoError == [kind |-> "none"]

(***************************************************************************)
(* Lexer.                                                                  *)
(***************************************************************************)
\* input[p] of the source: undefined outside the string.
CharAt(in, p) == IF p >= 0 /\ p < Len(in) THEN in[p + 1] ELSE Undefined

\* Lexer.constructor
NewLexer(in) ==
    [position |-> 0, currentChar |-> CharAt(in, 0), currentToken |-> UntypedToken]

\* class Lexer: the fields the class declares.  (input is the variable of
\* that name, the same string for every instance here.)
LexerFields == { "position", "currentChar", "currentToken" }

\* position declared static: one cursor held by the class.
StaticFields_Position == { "position" }

\* class Lexer: the fields declared static, which the class holds once for
\* all its instances.  The class declares none static.
StaticFields == { }

\* What `this.f` reads in a method of an instance whose own fields are own,
\* while the class holds held.
This(own, held) ==
    [f \in LexerFields |-> IF f \in StaticFields THEN held[f] ELSE own[f]]

\* What the class holds once a method has left the fields lex behind.
ClassHolds(lex) == [f \in StaticFields |-> lex[f]]

\* Lexer.peek
peek(in, lex, stroke) ==
    IF Len(in) - 1 >= lex.position + stroke
    THEN in[lex.position + stroke + 1]
    ELSE ""

\* Lexer.peekSequence: the loop from p to start + size, left at once when the
\* cursor stands on the last character.
RECURSIVE peekSequenceLoop(_, _, _, _, _)
peekSequenceLoop(in, lex, p, size, s) ==
    IF p < lex.position + size
    THEN IF lex.position = Len(in) - 1
         THEN s
         ELSE peekSequenceLoop(in, lex, p + 1, size, s \o TextOf(CharAt(in, p)))
    ELSE s

peekSequence(in, lex, size) == peekSequenceLoop(in, lex, lex.position, size, << >>)

\* advance moving position past the last character as well.
advance_PastTheEnd(in, lex, stroke) ==
    IF lex.position + stroke > Len(in) - 1
    THEN [lex EXCEPT !.currentChar = NUL, !.position = lex.position + stroke]
    ELSE [lex EXCEPT !.currentChar = in[lex.position + stroke + 1],
                     !.position = lex.position + stroke]

\* Lexer.advance
advance(in, lex, stroke) ==
    IF lex.position + stroke > Len(in) - 1
    THEN [lex EXCEPT !.currentChar = NUL]
    ELSE [lex EXCEPT !.currentChar = in[lex.position + stroke + 1],
                     !.position = lex.position + stroke]

\* What a lexer method hands back: the token, the lexer it leaves behind and
\* the error thrown instead of a token, if any.
Lexed(lex, token) == [lexer |-> lex, token |-> token, error |-> NoError]

\* getHeaderToken testing for two '#' before it tests for three.
getHeaderToken_TwoFirst(in, lex) ==
    IF peekSequence(in, lex, 5) = << "#", "#", "#", "#", "#" >>
    THEN Lexed(advance(in, lex, 5), Token(<< "#", "#", "#", "#", "#" >>, "HEADER5"))
    ELSE IF peekSequence(in, lex, 4) = << "#", "#", "#", "#" >>
    THEN Lexed(advance(in, lex, 4), Token(<< "#", "#", "#", "#" >>, "HEADER4"))
    ELSE IF peekSequence(in, lex, 2) = << "#", "#" >>
    THEN Lexed(advance(in, lex, 2), Token(<< "#", "#" >>, "HEADER2"))
    ELSE IF peekSequence(in, lex, 3) = << "#", "#", "#" >>
    THEN Lexed(advance(in, lex, 3), Token(<< "#", "#", "#" >>, "HEADER3"))
    ELSE Lexed(advance(in, lex, 1), Token(<< "#" >>, "HEADER1"))

\* Lexer.getHeaderToken
getHeaderToken(in, lex) ==
    IF peekSequence(in, lex, 5) = << "#", "#", "#", "#", "#" >>
    THEN Lexed(advance(in, lex, 5), Token(<< "#", "#", "#", "#", "#" >>, "HEADER5"))
    ELSE IF peekSequence(in, lex, 4) = << "#", "#", "#", "#" >>
    THEN Lexed(advance(in, lex, 4), Token(<< "#", "#", "#", "#" >>, "HEADER4"))
    ELSE IF peekSequence(in, lex, 3) = << "#", "#", "#" >>
    THEN Lexed(advance(in, lex, 3), Token(<< "#", "#", "#" >>, "HEADER3"))
    ELSE IF peekSequence(in, lex, 2) = << "#", "#" >>
    THEN Lexed(advance(in, lex, 2), Token(<< "#", "#" >>, "HEADER2"))
    ELSE Lexed(advance(in, lex, 1), Token(<< "#" >>, "HEADER1"))

\* Lexer.getTextToken: the while loop, s being the text gathered so far.
RECURSIVE getTextTokenLoop(_, _, _)
getTextTokenLoop(in, lex, s) ==
    IF isAlphaNumeric(lex.currentChar)
    THEN getTextTokenLoop(in, advance(in, lex, 1), s \o TextOf(lex.currentChar))
    ELSE Lexed(lex, Token(s, "STRING"))

getTextToken(in, lex) == getTextTokenLoop(in, lex, << >>)

\* getCodeToken advancing by two characters over a fence of three.
getCodeToken_ShortStroke(in, lex) ==
    IF peek(in, lex, 1) = Backtick /\ peek(in, lex, 2) = Backtick
    THEN Lexed(advance(in, lex, 2), Token(<< Backtick, Backtick, Backtick >>, "CODE"))
    ELSE Lexed(advance(in, lex, 1), Token(<< Backtick >>, "MONOSPACE"))

\* Lexer.getCodeToken
getCodeToken(in, lex) ==
    IF peek(in, lex, 1) = Backtick /\ peek(in, lex, 2) = Backtick
    THEN Lexed(advance(in, lex, 3), Token(<< Backtick, Backtick, Backtick >>, "CODE"))
    ELSE Lexed(advance(in, lex, 1), Token(<< Backtick >>, "MONOSPACE"))

invalidCharacterError_OneBased(lex) ==
    [kind |-> "lexical", char |-> lex.currentChar, position |-> lex.position + 1]

\* Lexer.invalidCharacterError: the thrown text names currentChar and position.
invalidCharacterError(lex) ==
    [kind |-> "lexical", char |-> lex.currentChar, position |-> lex.position]

\* The switch of Lexer.getNextToken.
Scan(in, lex) ==
    CASE lex.currentChar = NUL -> Lexed(lex, Token(<< NUL >>, "EOF"))
      [] lex.currentChar = " " -> Lexed(advance(in, lex, 1), Token(<< " " >>, "SPACE"))
      [] lex.currentChar = "_" -> Lexed(advance(in, lex, 1), Token(<< "_" >>, "ITALIC"))
      [] lex.currentChar = "*" ->
            IF peek(in, lex, 1) = "*"
            THEN Lexed(advance(in, lex, 2), Token(<< "*", "*" >>, "BOLD"))
            ELSE [lexer |-> lex, token |-> UntypedToken,
                  error |-> invalidCharacterError(lex)]
      [] lex.currentChar = "-" ->
            IF peek(in, lex, 1) = "-" /\ peek(in, lex, 2) = "-"
            THEN Lexed(advance(in, lex, 3), Token(<< "-", "-", "-" >>, "LINEBREAK"))
            ELSE Lexed(advance(in, lex, 1), Token(<< "-" >>, "UNORDEREDLI"))
      [] lex.currentChar = "#" -> getHeaderToken(in, lex)
      [] lex.currentChar = Backtick -> getCodeToken(in, lex)
      [] lex.currentChar = "\n" ->
            Lexed(advance(in, lex, 1), Token(<< "\n" >>, "NEWLINE"))
      [] OTHER -> getTextToken(in, lex)

\* getNextToken whose end-of-input case advances like the other cases.
getNextToken_AdvanceAtEnd(in, lex) ==
    LET r == Scan(in, lex)
    IN  IF r.error.kind # "none"
        THEN r
        ELSE IF lex.currentChar = NUL
        THEN [r EXCEPT !.lexer = [advance(in, lex, 1) EXCEPT !.currentToken = r.token]]
        ELSE [r EXCEPT !.lexer.currentToken = r.token]

\* Lexer.getNextToken: the switch, then this.currentToken = token.  A throw
\* leaves the lexer as it was before the call.
getNextToken(in, lex) ==
    LET r == Scan(in, lex)
    IN  IF r.error.kind # "none"
        THEN r
        ELSE [r EXCEPT !.lexer.currentToken = r.token]

(***************************************************************************)
(* The Lexer of the README variant (src/parser.ts).  Its fields, its       *)
(* constructor, peek, peekSequence, advance and getCodeToken are those of  *)
(* src/src/lexer.ts; it has no Space token.                                *)
(***************************************************************************)
\* Lexer.getHeaderToken of src/parser.ts
readmeGetHeaderToken(in, lex) ==
    IF peekSequence(in, lex, 5) = << "#", "#", "#", "#", "#" >>
    THEN Lexed(advance(in, lex, 5), Token(<< "#", "#", "#", "#", "#" >>, "HEADER5"))
    ELSE IF peekSequence(in, lex, 4) = << "#", "#", "#", "#" >>
    THEN Lexed(advance(in, lex, 4), Token(<< "#", "#", "#", "#" >>, "HEADER5"))
    ELSE IF peekSequence(in, lex, 3) = << "#", "#", "#" >>
    THEN Lexed(advance(in, lex, 3), Token(<< "#", "#", "#" >>, "HEADER4"))
    ELSE IF peekSequence(in, lex, 2) = << "#", "#" >>
    THEN Lexed(advance(in, lex, 2), Token(<< "#", "#" >>, "HEADER3"))
    ELSE Lexed(advance(in, lex, 1), Token(<< "#" >>, "HEADER1"))

\* Lexer.getTextToken of src/parser.ts: spaces belong to the text.
RECURSIVE readmeGetTextTokenLoop(_, _, _)
readmeGetTextTokenLoop(in, lex, s) ==
    IF isAlphaNumeric(lex.currentChar) \/ lex.currentChar = " "
    THEN readmeGetTextTokenLoop(in, advance(in, lex, 1), s \o TextOf(lex.currentChar))
    ELSE Lexed(lex, Token(s, "STRING"))

readmeGetTextToken(in, lex) == readmeGetTextTokenLoop(in, lex, << >>)

\* Lexer.getNextToken of src/parser.ts
readmeGetNextToken(in, lex) ==
    LET r ==
          CASE lex.currentChar = NUL -> Lexed(lex, Token(<< NUL >>, "EOF"))
            [] lex.currentChar = "_" ->
                  Lexed(advance(in, lex, 1), Token(<< "_" >>, "ITALIC"))
            [] lex.currentChar = "*" ->
                  IF peek(in, lex, 1) = "*"
                  THEN Lexed(advance(in, lex, 2), Token(<< "*", "*" >>, "BOLD"))
                  ELSE [lexer |-> lex, token |-> UntypedToken,
                        error |-> invalidCharacterError(lex)]
            [] lex.currentChar = "-" ->
                  IF peek(in, lex, 1) = "-" /\ peek(in, lex, 2) = "-"
                  THEN Lexed(advance(in, lex, 3),
                             Token(<< "-", "-", "-" >>, "LINEBREAK"))
                  ELSE Lexed(advance(in, lex, 1), Token(<< "-" >>, "UNORDEREDLI"))
            [] lex.currentChar = "#" -> readmeGetHeaderToken(in, lex)
            [] lex.currentChar = Backtick -> getCodeToken(in, lex)
            [] lex.currentChar = "\n" ->
                  Lexed(advance(in, lex, 1), Token(<< "\n" >>, "NEWLINE"))
            [] OTHER -> readmeGetTextToken(in, lex)
    IN  IF r.error.kind # "none"
        THEN r
        ELSE [r EXCEPT !.lexer.currentToken = r.token]

(***************************************************************************)
(* AST nodes.                                                              *)
(***************************************************************************)
Node(type, token, children) ==
    [nodeType |-> type, token |-> token, children |-> children]

\* The Code variant of ASTNode carries languageName as well.
CodeNode(token, languageName, children) ==
    [nodeType |-> "Code", token |-> token, languageName |-> languageName,
     children |-> children]

\* Nothing returned (yet).
NoNode == Node("None", UntypedToken, << >>)

\* node.children = node.children.concat(child), child being one node.
AddChild(node, child) == [node EXCEPT !.children = Append(node.children, child)]

HeaderNodeTypes == { "Header1", "Header2", "Header3", "Header4", "Header5" }

\* The Map `headers` of Parser.headerStmt.
headers ==
    [t \in { "HEADER1", "HEADER2", "HEADER3", "HEADER4", "HEADER5" } |->
        CASE t = "HEADER1" -> "Header1"
          [] t = "HEADER2" -> "Header2"
          [] t = "HEADER3" -> "Header3"
          [] t = "HEADER4" -> "Header4"
          [] t = "HEADER5" -> "Header5"]

(***************************************************************************)
(* Parser.  The parser's view of the world while a rule runs is the record *)
(* ps: the lexer, Parser.currentToken, the number of getNextToken calls    *)
(* made so far and the error thrown, if any.  Once an error is thrown the  *)
(* rest of the rule is skipped.                                            *)
(***************************************************************************)
Count(n) == IF n < MaxCalls THEN n + 1 ELSE n

\* Parser.invalidTokenError: the thrown text is JSON.stringify(currentToken).
invalidTokenError(ps) ==
    [ps EXCEPT !.error = [kind |-> "syntax", token |-> ps.token]]

\* eat requesting two tokens where it requests one.
eat_TwoTokens(in, ps, tokenType) ==
    IF ps.error.kind # "none"
    THEN ps
    ELSE IF ps.token.tokenType = tokenType
    THEN LET r1 == getNextToken(in, ps.lexer)
             r == IF r1.error.kind # "none" THEN r1 ELSE getNextToken(in, r1.lexer)
         IN  IF r.error.kind # "none"
             THEN [ps EXCEPT !.error = r.error, !.calls = Count(Count(ps.calls))]
             ELSE [ps EXCEPT !.lexer = r.lexer, !.token = r.token,
                             !.calls = Count(Count(ps.calls))]
    ELSE [ps EXCEPT !.error = [kind |-> "syntax", token |-> ps.token]]

\* eat calling the Lexer before it compares the kinds.
eat_LexFirst(in, ps, tokenType) ==
    IF ps.error.kind # "none"
    THEN ps
    ELSE LET r == getNextToken(in, ps.lexer)
         IN  IF ps.token.tokenType = tokenType
             THEN IF r.error.kind # "none"
                  THEN [ps EXCEPT !.error = r.error, !.calls = Count(ps.calls)]
                  ELSE [ps EXCEPT !.lexer = r.lexer, !.token = r.token,
                                  !.calls = Count(ps.calls)]
             ELSE [ps EXCEPT !.lexer = r.lexer, !.calls = Count(ps.calls),
                             !.error = [kind |-> "syntax", token |-> ps.token]]

\* Parser.eat
eat(in, ps, tokenType) ==
    IF ps.error.kind # "none"
    THEN ps
    ELSE IF ps.token.tokenType = tokenType
    THEN LET r == getNextToken(in, ps.lexer)
         IN  IF r.error.kind # "none"
             THEN [ps EXCEPT !.error = r.error, !.calls = Count(ps.calls)]
             ELSE [ps EXCEPT !.lexer = r.lexer, !.token = r.token,
                             !.calls = Count(ps.calls)]
    ELSE invalidTokenError(ps)

(***************************************************************************)
(* A rule in progress is a frame of the call stack: the method, the place  *)
(* it has reached and its local (node, text, nodes, listNode, listRoot or  *)
(* rootNode).  One step of a rule runs it from there to its next call of   *)
(* another rule, or to its return, and says what happens then.             *)
(***************************************************************************)
Frame(fn, at, local) == [fn |-> fn, at |-> at, local |-> local]

NoFrame == Frame("none", "none", NoNode)

\* The rule calls another rule: `me` is its frame while it waits.
Calls(ps, me, callee) ==
    [kind |-> "call", ps |-> ps, me |-> me, callee |-> callee, value |-> NoNode]

\* The rule returns value.
Returns(ps, value) ==
    [kind |-> "return", ps |-> ps, me |-> NoFrame, callee |-> NoFrame,
     value |-> value]

\* The rule goes round its own loop once more.
Stays(ps, me) ==
    [kind |-> "stay", ps |-> ps, me |-> me, callee |-> NoFrame, value |-> NoNode]

TextNode(value) == Node("StringNode", Token(value, "STRING"), << >>)

\* Parser.allCharsStmt: one turn of the while loop, or the return.
allCharsStmt(in, f, ps, r) ==
    IF ps.token.tokenType \in { "STRING", "SPACE" }
    THEN Stays(eat(in, ps, ps.token.tokenType),
               [f EXCEPT !.local.token.tokenValue = @ \o ps.token.tokenValue])
    ELSE Returns(ps, f.local)

\* Parser.textStmt: the value of the recursive call is dropped.
textStmt(in, f, ps, r) ==
    IF f.at = "start"
    THEN CASE ps.token.tokenType = "STRING" ->
                Calls(eat(in, ps, "STRING"),
                      Frame("textStmt", "ret", [f.local EXCEPT !.token = ps.token]),
                      Frame("textStmt", "start", TextNode(<< >>)))
           [] ps.token.tokenType = "NEWLINE" ->
                Returns(eat(in, ps, "NEWLINE"),
                        [f.local EXCEPT !.token = ps.token,
                                        !.nodeType = "NewLineNode"])
           [] OTHER -> Returns(ps, f.local)
    ELSE Returns(ps, f.local)

\* boldStmt returning without eating the closing delimiter.
boldStmt_NoClose(in, f, ps, r) ==
    IF f.at = "start"
    THEN Calls(eat(in, ps, "BOLD"),
               Frame("boldStmt", "inner", Node("Bold", ps.token, << >>)),
               Frame("innerBoldStmt", "start", << >>))
    ELSE Returns(ps, [f.local EXCEPT !.children = r])

\* Parser.boldStmt
boldStmt(in, f, ps, r) ==
    IF f.at = "start"
    THEN Calls(eat(in, ps, "BOLD"),
               Frame("boldStmt", "inner", Node("Bold", ps.token, << >>)),
               Frame("innerBoldStmt", "start", << >>))
    ELSE Returns(eat(in, ps, "BOLD"), [f.local EXCEPT !.children = r])

\* Parser.italicStmt
italicStmt(in, f, ps, r) ==
    IF f.at = "start"
    THEN Calls(eat(in, ps, "ITALIC"),
               Frame("italicStmt", "inner", Node("Italic", ps.token, << >>)),
               Frame("innerItalicStmt", "start", << >>))
    ELSE Returns(eat(in, ps, "ITALIC"), [f.local EXCEPT !.children = r])

\* innerItalicStmt taking a Newline token as content as well.
innerItalicStmt_NewLine(in, f, ps, r) ==
    LET nodes == IF f.at = "concat" THEN Append(f.local, r) ELSE f.local
        me == Frame("innerItalicStmt", "concat", nodes)
    IN  CASE ps.token.tokenType = "BOLD" ->
                Calls(ps, me, Frame("boldStmt", "start", NoNode))
          [] ps.token.tokenType = "STRING" ->
                Calls(ps, me, Frame("allCharsStmt", "loop", TextNode(<< >>)))
          [] ps.token.tokenType = "NEWLINE" ->
                Calls(ps, me, Frame("textStmt", "start", TextNode(<< >>)))
          [] OTHER -> Returns(ps, nodes)

\* Parser.innerItalicStmt: nodes = nodes.concat(...) after a call, then the
\* while test.
innerItalicStmt(in, f, ps, r) ==
    LET nodes == IF f.at = "concat" THEN Append(f.local, r) ELSE f.local
        me == Frame("innerItalicStmt", "concat", nodes)
    IN  CASE ps.token.tokenType = "BOLD" ->
                Calls(ps, me, Frame("boldStmt", "start", NoNode))
          [] ps.token.tokenType = "STRING" ->
                Calls(ps, me, Frame("allCharsStmt", "loop", TextNode(<< >>)))
          [] OTHER -> Returns(ps, nodes)

\* Parser.innerBoldStmt
innerBoldStmt(in, f, ps, r) ==
    LET nodes == IF f.at = "concat" THEN Append(f.local, r) ELSE f.local
        me == Frame("innerBoldStmt", "concat", nodes)
    IN  CASE ps.token.tokenType = "ITALIC" ->
                Calls(ps, me, Frame("italicStmt", "start", NoNode))
          [] ps.token.tokenType = "STRING" ->
                Calls(ps, me, Frame("allCharsStmt", "loop", TextNode(<< >>)))
          [] OTHER -> Returns(ps, nodes)

\* Parser.monoSpaceStmt
monoSpaceStmt(in, f, ps, r) ==
    IF f.at = "start"
    THEN Calls(eat(in, ps, "MONOSPACE"),
               Frame("monoSpaceStmt", "ret", Node("Monospace", ps.token, << >>)),
               Frame("allCharsStmt", "loop", TextNode(<< >>)))
    ELSE Returns(eat(in, ps, "MONOSPACE"), AddChild(f.local, r))

\* codeStmt going on to the body without eating the Newline token.
codeStmt_NoNewLine(in, f, ps, r) ==
    IF f.at = "start"
    THEN LET p1 == eat(in, ps, "CODE")
             p2 == eat(in, p1, "STRING")
         IN  Calls(p2,
                   Frame("codeStmt", "ret",
                         CodeNode(ps.token, p1.token.tokenValue, << >>)),
                   Frame("allCharsStmt", "loop", TextNode(<< >>)))
    ELSE Returns(eat(in, ps, "CODE"), AddChild(f.local, r))

\* Parser.codeStmt: languageName is read before eat(STRING) tests the token.
codeStmt(in, f, ps, r) ==
    IF f.at = "start"
    THEN LET p1 == eat(in, ps, "CODE")
             p2 == eat(in, p1, "STRING")
             p3 == eat(in, p2, "NEWLINE")
         IN  Calls(p3,
                   Frame("codeStmt", "ret",
                         CodeNode(ps.token, p1.token.tokenValue, << >>)),
                   Frame("allCharsStmt", "loop", TextNode(<< >>)))
    ELSE Returns(eat(in, ps, "CODE"), AddChild(f.local, r))

\* headerStmt taking its text from textStmt, which keeps one token.
headerStmt_TextStmt(in, f, ps, r) ==
    IF f.at = "start"
    THEN IF ps.token.tokenType \in DOMAIN headers
         THEN Calls(eat(in, eat(in, ps, ps.token.tokenType), "SPACE"),
                    Frame("headerStmt", "ret",
                          Node(headers[ps.token.tokenType], ps.token, << >>)),
                    Frame("textStmt", "start", TextNode(<< >>)))
         ELSE Returns(invalidTokenError(ps), Node("Void", ps.token, << >>))
    ELSE Returns(ps, AddChild(f.local, r))

\* headerStmt going on to the text without eating a Space token.
headerStmt_NoSpace(in, f, ps, r) ==
    IF f.at = "start"
    THEN IF ps.token.tokenType \in DOMAIN headers
         THEN Calls(eat(in, ps, ps.token.tokenType),
                    Frame("headerStmt", "ret",
                          Node(headers[ps.token.tokenType], ps.token, << >>)),
                    Frame("allCharsStmt", "loop", TextNode(<< >>)))
         ELSE Returns(invalidTokenError(ps), Node("Void", ps.token, << >>))
    ELSE Returns(ps, AddChild(f.local, r))

\* Parser.headerStmt
headerStmt(in, f, ps, r) ==
    IF f.at = "start"
    THEN IF ps.token.tokenType \in DOMAIN headers
         THEN Calls(eat(in, eat(in, ps, ps.token.tokenType), "SPACE"),
                    Frame("headerStmt", "ret",
                          Node(headers[ps.token.tokenType], ps.token, << >>)),
                    Frame("allCharsStmt", "loop", TextNode(<< >>)))
         ELSE Returns(invalidTokenError(ps), Node("Void", ps.token, << >>))
    ELSE Returns(ps, AddChild(f.local, r))

\* Parser.innerUnorederedLiStmt
innerUnorederedLiStmt(in, f, ps, r) ==
    IF f.at = "start"
    THEN LET p2 == eat(in, eat(in, ps, "UNORDEREDLI"), "SPACE")
             me == Frame("innerUnorederedLiStmt", "ret",
                         Node("UnorderedListItem", ps.token, << >>))
         IN  CASE p2.token.tokenType = "ITALIC" ->
                    Calls(p2, me, Frame("italicStmt", "start", NoNode))
               [] p2.token.tokenType = "BOLD" ->
                    Calls(p2, me, Frame("boldStmt", "start", NoNode))
               [] p2.token.tokenType = "STRING" ->
                    Calls(p2, me, Frame("allCharsStmt", "loop", TextNode(<< >>)))
               [] p2.token.tokenType = "MONOSPACE" ->
                    Calls(p2, me, Frame("monoSpaceStmt", "start", NoNode))
               [] OTHER ->
                    Calls(p2, me, Frame("headerStmt", "start", NoNode))
    ELSE Returns(ps, AddChild(f.local, r))

ListRootNode == Node("UnorderedListRoot", Token(<< "l", "i", "s" >>, "UNTYPED"), << >>)

\* unorderedListStmt assigning each item to children instead of concatenating.
unorderedListStmt_Overwrite(in, f, ps, r) ==
    LET listRoot == IF f.at = "concat"
                    THEN [f.local EXCEPT !.children = << r >>]
                    ELSE f.local
    IN  IF ps.token.tokenType = "UNORDEREDLI"
        THEN Calls(ps, Frame("unorderedListStmt", "concat", listRoot),
                   Frame("innerUnorederedLiStmt", "start", NoNode))
        ELSE Returns(ps, listRoot)

\* Parser.unorderedListStmt
unorderedListStmt(in, f, ps, r) ==
    LET listRoot == IF f.at = "concat" THEN AddChild(f.local, r) ELSE f.local
    IN  IF ps.token.tokenType = "UNORDEREDLI"
        THEN Calls(ps, Frame("unorderedListStmt", "concat", listRoot),
                   Frame("innerUnorederedLiStmt", "start", NoNode))
        ELSE Returns(ps, listRoot)

VoidNode == Node("Void", UntypedToken, << >>)

\* formatStmt eating a Newline token and returning its placeholder.
formatStmt_VoidOnNewLine(in, f, ps, r) ==
    LET me == Frame("formatStmt", "ret", f.local)
        t == ps.token.tokenType
    IN  IF f.at = "start"
        THEN CASE t = "STRING" ->
                    Calls(ps, me, Frame("textStmt", "start", TextNode(<< >>)))
               [] t = "SPACE" ->
                    Calls(ps, me, Frame("allCharsStmt", "loop", TextNode(<< >>)))
               [] t = "MONOSPACE" ->
                    Calls(ps, me, Frame("monoSpaceStmt", "start", NoNode))
               [] t = "CODE" -> Calls(ps, me, Frame("codeStmt", "start", NoNode))
               [] t = "ITALIC" -> Calls(ps, me, Frame("italicStmt", "start", NoNode))
               [] t = "BOLD" -> Calls(ps, me, Frame("boldStmt", "start", NoNode))
               [] t = "NEWLINE" -> Returns(eat(in, ps, "NEWLINE"), f.local)
               [] t = "UNORDEREDLI" ->
                    Calls(ps, me, Frame("unorderedListStmt", "start", ListRootNode))
               [] t = "EOF" -> Returns(ps, f.local)
               [] t \in DOMAIN headers ->
                    Calls(ps, me, Frame("headerStmt", "start", NoNode))
               [] OTHER -> Returns(invalidTokenError(ps), f.local)
        ELSE Returns(ps, r)

\* formatStmt eating a LineBreak token as it eats a Newline token.
formatStmt_LineBreakAsNewLine(in, f, ps, r) ==
    LET me == Frame("formatStmt", "ret", f.local)
        t == ps.token.tokenType
    IN  IF f.at = "start"
        THEN CASE t = "STRING" ->
                    Calls(ps, me, Frame("textStmt", "start", TextNode(<< >>)))
               [] t = "SPACE" ->
                    Calls(ps, me, Frame("allCharsStmt", "loop", TextNode(<< >>)))
               [] t = "MONOSPACE" ->
                    Calls(ps, me, Frame("monoSpaceStmt", "start", NoNode))
               [] t = "CODE" -> Calls(ps, me, Frame("codeStmt", "start", NoNode))
               [] t = "ITALIC" -> Calls(ps, me, Frame("italicStmt", "start", NoNode))
               [] t = "BOLD" -> Calls(ps, me, Frame("boldStmt", "start", NoNode))
               [] t = "NEWLINE" ->
                    Calls(ps, me, Frame("textStmt", "start", TextNode(<< >>)))
               [] t = "LINEBREAK" ->
                    Returns(eat(in, ps, "LINEBREAK"),
                            Node("NewLineNode", ps.token, << >>))
               [] t = "UNORDEREDLI" ->
                    Calls(ps, me, Frame("unorderedListStmt", "start", ListRootNode))
               [] t = "EOF" -> Returns(ps, f.local)
               [] t \in DOMAIN headers ->
                    Calls(ps, me, Frame("headerStmt", "start", NoNode))
               [] OTHER -> Returns(invalidTokenError(ps), f.local)
        ELSE Returns(ps, r)

\* Parser.formatStmt
formatStmt(in, f, ps, r) ==
    LET me == Frame("formatStmt", "ret", f.local)
        t == ps.token.tokenType
    IN  IF f.at = "start"
        THEN CASE t = "STRING" ->
                    Calls(ps, me, Frame("textStmt", "start", TextNode(<< >>)))
               [] t = "SPACE" ->
                    Calls(ps, me, Frame("allCharsStmt", "loop", TextNode(<< >>)))
               [] t = "MONOSPACE" ->
                    Calls(ps, me, Frame("monoSpaceStmt", "start", NoNode))
               [] t = "CODE" -> Calls(ps, me, Frame("codeStmt", "start", NoNode))
               [] t = "ITALIC" -> Calls(ps, me, Frame("italicStmt", "start", NoNode))
               [] t = "BOLD" -> Calls(ps, me, Frame("boldStmt", "start", NoNode))
               [] t = "NEWLINE" ->
                    Calls(ps, me, Frame("textStmt", "start", TextNode(<< >>)))
               [] t = "UNORDEREDLI" ->
                    Calls(ps, me, Frame("unorderedListStmt", "start", ListRootNode))
               [] t = "EOF" -> Returns(ps, f.local)
               [] t \in DOMAIN headers ->
                    Calls(ps, me, Frame("headerStmt", "start", NoNode))
               [] OTHER -> Returns(invalidTokenError(ps), f.local)
        ELSE Returns(ps, r)

RootNode == Node("RootNode", Token(<< "R", "o", "o", "t" >>, "UNTYPED"), << >>)

\* rootStmt ending its loop on a Newline token as well.
rootStmt_StopsAtNewLine(in, f, ps, r) ==
    LET rootNode == IF f.at = "concat" THEN AddChild(f.local, r) ELSE f.local
    IN  IF ps.token.tokenType \notin { "EOF", "NEWLINE" }
        THEN Calls(ps, Frame("rootStmt", "concat", rootNode),
                   Frame("formatStmt", "start", VoidNode))
        ELSE Returns(ps, rootNode)

\* Parser.rootStmt
rootStmt(in, f, ps, r) ==
    LET rootNode == IF f.at = "concat" THEN AddChild(f.local, r) ELSE f.local
    IN  IF ps.token.tokenType # "EOF"
        THEN Calls(ps, Frame("rootStmt", "concat", rootNode),
                   Frame("formatStmt", "start", VoidNode))
        ELSE Returns(ps, rootNode)

(***************************************************************************)
(* Inputs.                                                                 *)
(***************************************************************************)
SeqsUpTo(S, n) == UNION { [1..k -> S] : k \in 0..n }

RECURSIVE Flatten(_)
Flatten(ss) == IF ss = << >> THEN << >> ELSE Head(ss) \o Flatten(Tail(ss))

Alphabet == { "a", " ", "\n", "_", "*", "-", "#", Backtick, "!" }

\* Every string over the alphabet, up to MaxLen characters.
ShortInputs == SeqsUpTo(Alphabet, MaxLen)

LineTexts == { << "a" >>, << "b", "1" >> }

RECURSIVE ListLines(_)
ListLines(texts) ==
    IF Len(texts) = 1
    THEN << "-", " " >> \o texts[1]
    ELSE << "-", " " >> \o texts[1] \o << "\n" >> \o ListLines(Tail(texts))

\* n >= 2 lines "- text", a newline between two lines.
ListInputs == { ListLines(texts) : texts \in UNION { [1..n -> LineTexts] : n \in 2..MaxLines } }

Hashes(k) == [i \in 1..k |-> "#"]

HeaderTexts == { << "a" >>, << "T", "i" >>, << "a", " ", "b" >> }

HeaderRests == { << >>, << "\n" >>, << "\n", "b" >>, << "_", "b", "_" >> }

\* A run of '#', a space, a text and what follows the text.
HeaderInputs ==
    { Hashes(k) \o << " " >> \o t \o rest :
        k \in 1..MaxHashes, t \in HeaderTexts, rest \in HeaderRests }

BodyPieces == { << "a" >>, << " " >>, << "\n" >> }

Fence == << Backtick, Backtick, Backtick >>

FencedBlock(body) == Fence \o << "j", "s", "\n" >> \o body \o Fence

\* A fenced block: fence, language, newline, body, fence.
CodeInputs == { FencedBlock(Flatten(b)) : b \in SeqsUpTo(BodyPieces, MaxBody) }

\* What may stand between two '**': text runs and italic spans.
BoldElems == { << "a" >>, << " " >>, << "_", "b", "_" >> }

\* What may stand between two '_': text runs and bold spans.
ItalicElems == { << "a" >>, << " " >>, << "*", "*", "b", "*", "*" >> }

BoldSpan(elems) == << "*", "*" >> \o Flatten(elems) \o << "*", "*" >>

ItalicSpan(elems) == << "_" >> \o Flatten(elems) \o << "_" >>

\* A closed bold or italic span.
EmphasisInputs ==
    { BoldSpan(e) : e \in SeqsUpTo(BoldElems, MaxElems) }
        \cup { ItalicSpan(e) : e \in SeqsUpTo(ItalicElems, MaxElems) }

\* A bold or italic span that the input ends before its closing delimiter.
OpenEmphasisInputs ==
    { << "*", "*" >> \o Flatten(e) : e \in SeqsUpTo(BoldElems, MaxElems) }
        \cup { << "_" >> \o Flatten(e) : e \in SeqsUpTo(ItalicElems, MaxElems) }

RECURSIVE TightItems(_)
TightItems(texts) ==
    IF texts = << >>
    THEN << >>
    ELSE << "-", " " >> \o Head(texts) \o TightItems(Tail(texts))

\* n >= 2 list items "- text" with nothing between two items.
TightListInputs ==
    { TightItems(texts) : texts \in UNION { [1..n -> LineTexts] : n \in 2..MaxLines } }

Languages == { << >>, << "a" >>, << "p", "y" >> }

AfterLanguage == { << >>, << "\n" >>, << " " >>, << "\n", "a" >> }

\* A fence, a language name or none, a newline or not, a body, a fence.
TaggedCodeInputs ==
    { Fence \o l \o x \o Fence : l \in Languages, x \in AfterLanguage }

\* A run of '#' at the start, in the middle or at the end of the input.
HashRunInputs ==
    { pre \o Hashes(k) \o post :
        pre \in { << >>, << "a" >> }, k \in 1..MaxHashes, post \in { << >>, << "a" >> } }

Inputs ==
    ShortInputs \cup ListInputs \cup HeaderInputs \cup CodeInputs
        \cup EmphasisInputs \cup OpenEmphasisInputs
        \cup TightListInputs \cup TaggedCodeInputs \cup HashRunInputs

(***************************************************************************)
(* The renderer (src/unnamed/part_002).                                    *)
(***************************************************************************)
\* fillSpace
fillSpace(size) == [i \in 1..size |-> " "]

\* toHtml closing a bold span with the closing tag of an italic span.
RECURSIVE toHtml_BoldClosedAsItalic(_, _)
toHtml_BoldClosedAsItalic(root, incSize) ==
    LET inc == fillSpace(incSize)
        nextInc == incSize + 3
        piece(child) ==
            CASE
                 child.nodeType = "Bold" ->
                        inc \o << "<", "s", "t", "r", "o", "n", "g", ">" >> \o toHtml_BoldClosedAsItalic(child, 0)
                            \o inc \o << "<", "/", "i", ">", "\n" >>
              [] child.nodeType = "NewLineNode" -> inc \o << "<", "b", "r", ">", "\n" >>
              [] child.nodeType = "SpaceNode" -> inc \o << "<", "s", "p", "a", "n", ">", " ", "<", "/", "s", "p", "a", "n", ">" >>
              [] child.nodeType = "StringNode" ->
                        inc \o << "<", "s", "p", "a", "n", ">" >> \o child.token.tokenValue
                            \o inc \o << "<", "/", "s", "p", "a", "n", ">", "\n" >>
              [] child.nodeType = "Italic" ->
                        inc \o << "<", "i", ">" >> \o toHtml_BoldClosedAsItalic(child, 0)
                            \o inc \o << "<", "/", "i", ">", "\n" >>
              [] child.nodeType = "Header1" ->
                        inc \o << "<", "h", "1", ">", "\n" >> \o toHtml_BoldClosedAsItalic(child, nextInc)
                            \o inc \o << "\n", "<", "/", "h", "1", ">", "\n" >>
              [] child.nodeType = "Header2" ->
                        inc \o << "<", "h", "2", ">", "\n" >> \o toHtml_BoldClosedAsItalic(child, nextInc)
                            \o inc \o << "\n", "<", "/", "h", "2", ">", "\n" >>
              [] child.nodeType = "Header3" ->
                        inc \o << "<", "h", "3", ">", "\n" >> \o toHtml_BoldClosedAsItalic(child, nextInc)
                            \o inc \o << "\n", "<", "/", "h", "3", ">", "\n" >>
              [] child.nodeType = "Header4" ->
                        inc \o << "<", "h", "4", ">", "\n" >> \o toHtml_BoldClosedAsItalic(child, nextInc)
                            \o inc \o << "\n", "<", "/", "h", "4", ">", "\n" >>
              [] child.nodeType = "Header5" ->
                        inc \o << "<", "h", "5", ">", "\n" >> \o toHtml_BoldClosedAsItalic(child, nextInc)
                            \o inc \o << "\n", "<", "/", "h", "5", ">", "\n" >>
              [] child.nodeType = "Monospace" ->
                        inc \o << "<", "c", "o", "d", "e", ">" >> \o toHtml_BoldClosedAsItalic(child, 0)
                            \o inc \o << "<", "/", "c", "o", "d", "e", ">", "\n" >>
              [] child.nodeType = "UnorderedListRoot" ->
                        inc \o << "<", "u", "l", ">", "\n" >> \o inc \o toHtml_BoldClosedAsItalic(child, nextInc)
                            \o inc \o << "\n", "<", "/", "u", "l", ">", "\n" >>
              [] child.nodeType = "UnorderedListItem" ->
                        << "<", "l", "i", ">", "\n" >> \o inc \o toHtml_BoldClosedAsItalic(child, 0)
                            \o inc \o << "\n", "<", "/", "l", "i", ">", "\n" >>
              [] OTHER -> << >>
    IN  (IF root.nodeType = "RootNode" THEN << "<", "h", "t", "m", "l", ">", "\n" >> ELSE << >>)
            \o Flatten([i \in 1..Len(root.children) |-> piece(root.children[i])])
            \o (IF root.nodeType = "RootNode" THEN << "\n", "<", "/", "h", "t", "m", "l", ">" >> ELSE << >>)

\* toHtml: the text it returns, character by character.
RECURSIVE toHtml(_, _)
toHtml(root, incSize) ==
    LET inc == fillSpace(incSize)
        nextInc == incSize + 3
        piece(child) ==
            CASE
                 child.nodeType = "Bold" ->
                        inc \o << "<", "s", "t", "r", "o", "n", "g", ">" >> \o toHtml(child, 0)
                            \o inc \o << "<", "/", "s", "t", "r", "o", "n", "g", ">", "\n" >>
              [] child.nodeType = "NewLineNode" -> inc \o << "<", "b", "r", ">", "\n" >>
              [] child.nodeType = "SpaceNode" -> inc \o << "<", "s", "p", "a", "n", ">", " ", "<", "/", "s", "p", "a", "n", ">" >>
              [] child.nodeType = "StringNode" ->
                        inc \o << "<", "s", "p", "a", "n", ">" >> \o child.token.tokenValue
                            \o inc \o << "<", "/", "s", "p", "a", "n", ">", "\n" >>
              [] child.nodeType = "Italic" ->
                        inc \o << "<", "i", ">" >> \o toHtml(child, 0)
                            \o inc \o << "<", "/", "i", ">", "\n" >>
              [] child.nodeType = "Header1" ->
                        inc \o << "<", "h", "1", ">", "\n" >> \o toHtml(child, nextInc)
                            \o inc \o << "\n", "<", "/", "h", "1", ">", "\n" >>
              [] child.nodeType = "Header2" ->
                        inc \o << "<", "h", "2", ">", "\n" >> \o toHtml(child, nextInc)
                            \o inc \o << "\n", "<", "/", "h", "2", ">", "\n" >>
              [] child.nodeType = "Header3" ->
                        inc \o << "<", "h", "3", ">", "\n" >> \o toHtml(child, nextInc)
                            \o inc \o << "\n", "<", "/", "h", "3", ">", "\n" >>
              [] child.nodeType = "Header4" ->
                        inc \o << "<", "h", "4", ">", "\n" >> \o toHtml(child, nextInc)
                            \o inc \o << "\n", "<", "/", "h", "4", ">", "\n" >>
              [] child.nodeType = "Header5" ->
                        inc \o << "<", "h", "5", ">", "\n" >> \o toHtml(child, nextInc)
                            \o inc \o << "\n", "<", "/", "h", "5", ">", "\n" >>
              [] child.nodeType = "Monospace" ->
                        inc \o << "<", "c", "o", "d", "e", ">" >> \o toHtml(child, 0)
                            \o inc \o << "<", "/", "c", "o", "d", "e", ">", "\n" >>
              [] child.nodeType = "UnorderedListRoot" ->
                        inc \o << "<", "u", "l", ">", "\n" >> \o inc \o toHtml(child, nextInc)
                            \o inc \o << "\n", "<", "/", "u", "l", ">", "\n" >>
              [] child.nodeType = "UnorderedListItem" ->
                        << "<", "l", "i", ">", "\n" >> \o inc \o toHtml(child, 0)
                            \o inc \o << "\n", "<", "/", "l", "i", ">", "\n" >>
              [] OTHER -> << >>
    IN  (IF root.nodeType = "RootNode" THEN << "<", "h", "t", "m", "l", ">", "\n" >> ELSE << >>)
            \o Flatten([i \in 1..Len(root.children) |-> piece(root.children[i])])
            \o (IF root.nodeType = "RootNode" THEN << "\n", "<", "/", "h", "t", "m", "l", ">" >> ELSE << >>)

(***************************************************************************)
(* The state machine.  pc is "new" once the Lexer is constructed; from     *)
(* there the caller either pulls tokens itself ("lexing") or constructs a  *)
(* Parser ("constructed") and calls rootStmt ("running"), which returns    *)
(* ("returned") or throws ("threw").  With the Lexer of the README variant *)
(* the caller pulls tokens likewise ("readme").  A returned tree is        *)
(* rendered by toHtml ("rendered").                                        *)
(* lexer and twin.lexer are the fields each Lexer instance holds, statics  *)
(* the fields the class holds.                                             *)
(***************************************************************************)
Init ==
    /\ input \in Inputs
    /\ lexer = NewLexer(input)
    /\ calls = 0
    /\ pc = "new"
    /\ currentToken = UntypedToken
    /\ stack = << >>
    /\ ret = NoNode
    /\ result = NoNode
    /\ error = NoError
    /\ output = << >>
    /\ twin = [lexer |-> NewLexer(input), calls |-> 0, error |-> NoError,
               output |-> << >>]
    /\ statics = ClassHolds(NewLexer(input))
    /\ html = << >>

\* The caller pulls a token from the lexer and keeps it in output.
GetNextToken ==
    /\ pc \in { "new", "lexing" }
    /\ calls < MaxCalls
    /\ LET r == getNextToken(input, This(lexer, statics))
       IN  /\ lexer' = r.lexer
           /\ statics' = ClassHolds(r.lexer)
           /\ error' = r.error
           /\ output' = IF r.error.kind = "none" THEN Append(output, r.token) ELSE output
    /\ calls' = calls + 1
    /\ pc' = "lexing"
    /\ UNCHANGED << input, currentToken, stack, ret, result, twin, html >>

\* The caller pulls a token from a second Lexer built from the same input,
\* after it has made its calls on the first one.
TwinGetNextToken ==
    /\ pc = "lexing"
    /\ calls = MaxCalls
    /\ twin.calls < calls
    /\ LET r == getNextToken(input, This(twin.lexer, statics))
       IN  /\ twin' = [lexer |-> r.lexer,
                       calls |-> twin.calls + 1,
                       error |-> r.error,
                       output |-> IF r.error.kind = "none"
                                  THEN Append(twin.output, r.token)
                                  ELSE twin.output]
           /\ statics' = ClassHolds(r.lexer)
    /\ UNCHANGED << input, lexer, calls, pc, currentToken, stack, ret, result,
                    error, output, html >>

\* The caller pulls a token from the Lexer of src/parser.ts.
ReadmeGetNextToken ==
    /\ pc \in { "new", "readme" }
    /\ calls < MaxCalls
    /\ LET r == readmeGetNextToken(input, lexer)
       IN  /\ lexer' = r.lexer
           /\ error' = r.error
           /\ output' = IF r.error.kind = "none" THEN Append(output, r.token) ELSE output
    /\ calls' = calls + 1
    /\ pc' = "readme"
    /\ UNCHANGED << input, currentToken, stack, ret, result, twin, statics, html >>

\* Parser.constructor
NewParser ==
    /\ pc = "new"
    /\ LET r == getNextToken(input, This(lexer, statics))
       IN  /\ lexer' = r.lexer
           /\ statics' = ClassHolds(r.lexer)
           /\ error' = r.error
           /\ currentToken' = IF r.error.kind = "none" THEN r.token ELSE currentToken
           /\ pc' = IF r.error.kind = "none" THEN "constructed" ELSE "threw"
    /\ calls' = Count(calls)
    /\ UNCHANGED << input, stack, ret, result, output, twin, html >>

\* The caller calls parser.rootStmt().
CallRootStmt ==
    /\ pc = "constructed"
    /\ pc' = "running"
    /\ stack' = << Frame("rootStmt", "start", RootNode) >>
    /\ UNCHANGED << input, lexer, calls, currentToken, ret, result, error, output,
                    twin, statics, html >>

Top == stack[Len(stack)]

\* The parser's view at the start of a step.
Now ==
    [lexer |-> This(lexer, statics), token |-> currentToken, calls |-> calls,
     error |-> NoError]

Running(fn) == pc = "running" /\ stack # << >> /\ Top.fn = fn

\* The runtime's RangeError when the call stack is exhausted.
RangeError == [kind |-> "range"]

\* The effect of one step of a rule on the state.
Apply(o) ==
    /\ lexer' = o.ps.lexer
    /\ currentToken' = o.ps.token
    /\ calls' = o.ps.calls
    /\ input' = input
    /\ output' = output
    /\ twin' = twin
    /\ statics' = ClassHolds(o.ps.lexer)
    /\ html' = html
    /\ IF o.ps.error.kind # "none"
       THEN /\ pc' = "threw"
            /\ error' = o.ps.error
            /\ stack' = << >>
            /\ UNCHANGED << ret, result >>
       ELSE CASE o.kind = "call" ->
                   IF Len(stack) >= MaxDepth
                   THEN /\ pc' = "threw"
                        /\ error' = RangeError
                        /\ stack' = << >>
                        /\ UNCHANGED << ret, result >>
                   ELSE /\ stack' = Append([stack EXCEPT ![Len(stack)] = o.me],
                                           o.callee)
                        /\ UNCHANGED << pc, ret, result, error >>
              [] o.kind = "stay" ->
                   /\ stack' = [stack EXCEPT ![Len(stack)] = o.me]
                   /\ UNCHANGED << pc, ret, result, error >>
              [] o.kind = "return" ->
                   IF Len(stack) = 1
                   THEN /\ pc' = "returned"
                        /\ result' = o.value
                        /\ stack' = << >>
                        /\ UNCHANGED << ret, error >>
                   ELSE /\ stack' = SubSeq(stack, 1, Len(stack) - 1)
                        /\ ret' = o.value
                        /\ UNCHANGED << pc, result, error >>

RootStmt == Running("rootStmt") /\ Apply(rootStmt(input, Top, Now, ret))
FormatStmt == Running("formatStmt") /\ Apply(formatStmt(input, Top, Now, ret))
TextStmt == Running("textStmt") /\ Apply(textStmt(input, Top, Now, ret))
AllCharsStmt == Running("allCharsStmt") /\ Apply(allCharsStmt(input, Top, Now, ret))
BoldStmt == Running("boldStmt") /\ Apply(boldStmt(input, Top, Now, ret))
ItalicStmt == Running("italicStmt") /\ Apply(italicStmt(input, Top, Now, ret))
InnerBoldStmt == Running("innerBoldStmt") /\ Apply(innerBoldStmt(input, Top, Now, ret))
InnerItalicStmt ==
    Running("innerItalicStmt") /\ Apply(innerItalicStmt(input, Top, Now, ret))
MonoSpaceStmt == Running("monoSpaceStmt") /\ Apply(monoSpaceStmt(input, Top, Now, ret))
CodeStmt == Running("codeStmt") /\ Apply(codeStmt(input, Top, Now, ret))
HeaderStmt == Running("headerStmt") /\ Apply(headerStmt(input, Top, Now, ret))
InnerUnorederedLiStmt ==
    Running("innerUnorederedLiStmt")
        /\ Apply(innerUnorederedLiStmt(input, Top, Now, ret))
UnorderedListStmt ==
    Running("unorderedListStmt") /\ Apply(unorderedListStmt(input, Top, Now, ret))

\* The caller renders the returned tree: toHtml(parser.rootStmt()).
ToHtml ==
    /\ pc = "returned"
    /\ html' = toHtml(result, 0)
    /\ pc' = "rendered"
    /\ UNCHANGED << input, lexer, calls, currentToken, stack, ret, result, error,
                    output, twin, statics >>

Next ==
    \/ GetNextToken
    \/ TwinGetNextToken
    \/ ReadmeGetNextToken
    \/ NewParser
    \/ CallRootStmt
    \/ RootStmt
    \/ FormatStmt
    \/ TextStmt
    \/ AllCharsStmt
    \/ BoldStmt
    \/ ItalicStmt
    \/ InnerBoldStmt
    \/ InnerItalicStmt
    \/ MonoSpaceStmt
    \/ CodeStmt
    \/ HeaderStmt
    \/ InnerUnorederedLiStmt
    \/ UnorderedListStmt
    \/ ToHtml

Spec == Init /\ [][Next]_vars

(***************************************************************************)
(* Reading a returned tree.                                                *)
(***************************************************************************)
Finished == pc \in { "returned", "threw" }

\* The nodes of a tree, the root first, in document order.
RECURSIVE NodesOf(_)
NodesOf(n) ==
    << n >> \o Flatten([i \in 1..Len(n.children) |-> NodesOf(n.children[i])])

\* The source text a tree of text and emphasis nodes stands for.
RECURSIVE Unparse(_)
Unparse(n) ==
    LET inner == Flatten([i \in 1..Len(n.children) |-> Unparse(n.children[i])])
    IN  CASE n.nodeType = "StringNode" -> n.token.tokenValue
          [] n.nodeType \in { "Bold", "Italic" } ->
                n.token.tokenValue \o inner \o n.token.tokenValue
          [] OTHER -> inner

OfKind(nodes, type) == SelectSeq(nodes, LAMBDA c : c.nodeType = type)

CountOf(seq, x) == Cardinality({ i \in 1..Len(seq) : seq[i] = x })

OnlyOver(seq, chars) == \A i \in 1..Len(seq) : seq[i] \in chars

\* The longest prefix of s made of alphanumerics and spaces.
RECURSIVE TextPrefix(_)
TextPrefix(s) ==
    IF s # << >> /\ (Head(s) \in Letters \cup Digits \/ Head(s) = " ")
    THEN << Head(s) >> \o TextPrefix(Tail(s))
    ELSE << >>

\* The part of s before its first newline.
RECURSIVE LineOf(_)
LineOf(s) ==
    IF s # << >> /\ Head(s) # "\n"
    THEN << Head(s) >> \o LineOf(Tail(s))
    ELSE << >>

\* The number of '#' that s starts with.
RECURSIVE LeadingHashes(_)
LeadingHashes(s) ==
    IF s # << >> /\ Head(s) = "#" THEN 1 + LeadingHashes(Tail(s)) ELSE 0

ListTexts == UNION { [1..n -> LineTexts] : n \in 2..MaxLines }

(***************************************************************************)
(* C1.  n >= 2 list lines "- text" separated by single newlines parse to a *)
(* Document holding exactly one UnorderedListRoot, whose children are n    *)
(* UnorderedListItem nodes, each with one Text child holding its line's    *)
(* text, in line order.                                                    *)
(***************************************************************************)
C1_OneListRoot ==
    \A texts \in ListTexts :
        (input = ListLines(texts) /\ Finished) =>
            /\ pc = "returned"
            /\ LET roots == OfKind(result.children, "UnorderedListRoot")
               IN  /\ Len(roots) = 1
                   /\ Len(roots[1].children) = Len(texts)
                   /\ \A i \in 1..Len(texts) :
                        /\ roots[1].children[i].nodeType = "UnorderedListItem"
                        /\ roots[1].children[i].children = << TextNode(texts[i]) >>

(***************************************************************************)
(* C2.  A getNextToken call made on a character that begins no token (not  *)
(* the end sentinel, space, '_', '*', '-', '#', backtick, newline or an    *)
(* alphanumeric) raises a lexical error carrying that character and its    *)
(* offset.                                                                 *)
(***************************************************************************)
BeginsNoToken(c) ==
    /\ c \notin { NUL, " ", "_", "*", "-", "#", Backtick, "\n", Undefined }
    /\ c \notin Letters \cup Digits

C2_InvalidCharRaises ==
    [][((GetNextToken \/ NewParser) /\ BeginsNoToken(lexer.currentChar)) =>
            /\ error'.kind = "lexical"
            /\ error'.char = lexer.currentChar
            /\ error'.position = lexer.position]_vars

(***************************************************************************)
(* C3.  At the top level a maximal run of String and Space tokens becomes  *)
(* exactly one Text node holding the run's concatenated text: an input of  *)
(* alphanumerics and spaces only parses to a Document with that one Text.  *)
(***************************************************************************)
C3_RunIsOneText ==
    (pc = "returned" /\ input # << >> /\ OnlyOver(input, Letters \cup Digits \cup { " " }))
        => result.children = << TextNode(input) >>

(***************************************************************************)
(* C4.  A line of more than five '#', a space and alphanumeric text is not *)
(* rejected: it parses to a Header5 node with one Text child.              *)
(***************************************************************************)
C4_LongRunClamped ==
    \A k \in 6..MaxHashes : \A t \in HeaderTexts :
        (input = Hashes(k) \o << " " >> \o t /\ OnlyOver(t, Letters \cup Digits)
                /\ Finished) =>
            /\ pc = "returned"
            /\ Len(result.children) = 1
            /\ result.children[1].nodeType = "Header5"
            /\ result.children[1].children = << TextNode(t) >>

(***************************************************************************)
(* C5.  Nothing is dropped from the Document's children: every Newline     *)
(* token consumed at block level yields exactly one NewLine node among     *)
(* them.  In an input of alphanumerics, spaces and newlines every newline  *)
(* is consumed at block level.                                             *)
(***************************************************************************)
C5_NewlinesKept ==
    (pc = "returned" /\ OnlyOver(input, Letters \cup Digits \cup { " ", "\n" })) =>
        Len(OfKind(result.children, "NewLineNode")) = CountOf(input, "\n")

HeaderOfLevel(h) ==
    CASE h = 1 -> "Header1"
      [] h = 2 -> "Header2"
      [] h = 3 -> "Header3"
      [] h = 4 -> "Header4"
      [] h = 5 -> "Header5"

\* The input starts with a header: one to five '#', then a space.
StartsWithHeader ==
    LET h == LeadingHashes(input)
    IN  h \in 1..5 /\ Len(input) > h /\ input[h + 1] = " "

\* What follows the separating space of that header.
AfterHeader == SubSeq(input, LeadingHashes(input) + 2, Len(input))

\* Every Header node of the returned tree has one child, a Text node.
HeadersHaveOneText ==
    LET nodes == NodesOf(result)
    IN  \A i \in 1..Len(nodes) :
            nodes[i].nodeType \in HeaderNodeTypes =>
                /\ Len(nodes[i].children) = 1
                /\ nodes[i].children[1].nodeType = "StringNode"
                /\ nodes[i].children[1].children = << >>

(***************************************************************************)
(* C6 as claimed.  Every Header node of a returned tree has exactly one    *)
(* child, a Text node, holding the whole remainder of the header's line:   *)
(* all the text between the separating space and the next newline or the   *)
(* end of the input.                                                       *)
(***************************************************************************)
C6_HeaderHoldsLine ==
    pc = "returned" =>
        /\ HeadersHaveOneText
        /\ StartsWithHeader =>
            /\ result.children[1].nodeType = HeaderOfLevel(LeadingHashes(input))
            /\ result.children[1].children = << TextNode(LineOf(AfterHeader)) >>

(***************************************************************************)
(* C6 as amended.  Every Header node of a returned tree has exactly one    *)
(* child, a Text node, holding the maximal run of String and Space tokens  *)
(* after the separating space: the alphanumerics and spaces up to the      *)
(* first other character.                                                  *)
(***************************************************************************)
C6_HeaderHoldsTextRun ==
    pc = "returned" =>
        /\ HeadersHaveOneText
        /\ StartsWithHeader =>
            /\ result.children[1].nodeType = HeaderOfLevel(LeadingHashes(input))
            /\ result.children[1].children = << TextNode(TextPrefix(AfterHeader)) >>

\* A header whose line goes on after its text run has been parsed.
C6_Witness ==
    /\ pc = "returned"
    /\ StartsWithHeader
    /\ result.children[1].nodeType = "Header2"
    /\ result.children[1].children = << TextNode(<< "a", " ", "b" >>) >>
    /\ LineOf(AfterHeader) # TextPrefix(AfterHeader)

(***************************************************************************)
(* C7.  A fenced block (fence, language, newline, body, fence) parses, and *)
(* the Code node's single Text child holds the raw body whatever it        *)
(* contains, newlines included.                                            *)
(***************************************************************************)
C7_FencedBodyKept ==
    \A b \in SeqsUpTo(BodyPieces, MaxBody) :
        (input = FencedBlock(Flatten(b)) /\ Finished) =>
            /\ pc = "returned"
            /\ result.children =
                << CodeNode(Token(Fence, "CODE"), << "j", "s" >>,
                            << TextNode(Flatten(b)) >>) >>

(***************************************************************************)
(* C8.  A span of text runs and italic spans between two '**' (of text     *)
(* runs and bold spans between two '_') parses to one Bold (Italic) node   *)
(* whose children are those elements in order, also when the content       *)
(* starts with a space or has a space right after a nested span.           *)
(***************************************************************************)
C8_SpanParses ==
    (input \in EmphasisInputs /\ Finished) =>
        /\ pc = "returned"
        /\ Len(result.children) = 1
        /\ result.children[1].nodeType = (IF Head(input) = "*" THEN "Bold" ELSE "Italic")
        /\ Unparse(result.children[1]) = input

(***************************************************************************)
(* C9.  Once getNextToken has returned EndOfInput, every later call        *)
(* returns EndOfInput again and leaves position and currentChar unchanged. *)
(***************************************************************************)
C9_EndOfInputForever ==
    [][(lexer.currentToken.tokenType = "EOF" /\ (GetNextToken \/ calls' # calls)) =>
            /\ lexer' = lexer
            /\ error'.kind = "none"]_vars

\* Two more calls have been made after the one that returned EndOfInput.
C9_Witness ==
    /\ pc = "lexing"
    /\ input = << "a", " " >>
    /\ calls = 5
    /\ lexer.currentToken.tokenType = "EOF"

(***************************************************************************)
(* C10.  When the end of input arrives inside a Bold or Italic span, that  *)
(* is while boldStmt or italicStmt waits for its closing delimiter, the    *)
(* parse can only end by the syntax error of a failed eat: rootStmt        *)
(* returns no tree.                                                        *)
(***************************************************************************)
OpenSpanAtEnd ==
    /\ pc = "running"
    /\ currentToken.tokenType = "EOF"
    /\ \E i \in 1..Len(stack) :
            stack[i].fn \in { "boldStmt", "italicStmt" } /\ stack[i].at = "inner"

C10_OpenSpanThrows ==
    [][OpenSpanAtEnd =>
            \/ OpenSpanAtEnd'
            \/ (pc' = "threw" /\ error'.kind = "syntax" /\ result' = NoNode)]_vars

\* "**a": the parse has thrown on the end of input inside the bold span.
C10_Witness ==
    /\ pc = "threw"
    /\ input = << "*", "*", "a" >>
    /\ error = [kind |-> "syntax", token |-> Token(<< NUL >>, "EOF")]
    /\ result = NoNode

\* The number of characters the tokens returned so far are made of.
RECURSIVE TextLength(_)
TextLength(tokens) ==
    IF tokens = << >>
    THEN 0
    ELSE Len(Head(tokens).tokenValue) + TextLength(Tail(tokens))

\* The '*' at 0-based index p of the input has no '*' right after it.
LoneStarAt(p) ==
    /\ p >= 0 /\ p < Len(input)
    /\ input[p + 1] = "*"
    /\ (p + 2 > Len(input) \/ input[p + 2] # "*")

(***************************************************************************)
(* C11.  A getNextToken call made with the cursor on a '*' that no '*'     *)
(* follows raises a lexical error carrying '*' and the 0-based index of    *)
(* that '*' in the input, which is the number of characters of the tokens  *)
(* returned before; when the Parser primes itself on it, the constructor   *)
(* throws.  Every lexical error carrying '*', the parser's included, names *)
(* the index of such a '*'.                                                *)
(***************************************************************************)
C11_LoneStarRaises ==
    [][/\ ((GetNextToken \/ NewParser) /\ LoneStarAt(TextLength(output))) =>
            /\ error' = [kind |-> "lexical", char |-> "*",
                         position |-> TextLength(output)]
            /\ lexer' = lexer
            /\ output' = output
            /\ NewParser => (pc' = "threw" /\ result' = NoNode)
       /\ (error'.kind = "lexical" /\ error'.char = "*") => LoneStarAt(error'.position)
      ]_vars

\* "a *": the third call has raised on the '*' at index 2.
C11_Witness ==
    /\ pc = "lexing"
    /\ input = << "a", " ", "*" >>
    /\ calls = 3
    /\ error = [kind |-> "lexical", char |-> "*", position |-> 2]

\* The rules whose only way to a syntax error is a failed eat.
EatingRules ==
    { "boldStmt", "italicStmt", "monoSpaceStmt", "codeStmt", "innerUnorederedLiStmt" }

(***************************************************************************)
(* C12.  An eat of the current token's kind consumes it: the current token *)
(* becomes the lexer's next token.  A failed eat raises a syntax error     *)
(* whose payload names both the expected token kind and the actual current *)
(* token.                                                                  *)
(***************************************************************************)
C12_EatNamesBoth ==
    [][(pc = "running" /\ Top.fn \in EatingRules) =>
            /\ (calls' # calls /\ pc' = "running") =>
                    currentToken' = lexer'.currentToken
            /\ (pc' = "threw" /\ error'.kind = "syntax") =>
                    /\ "token" \in DOMAIN error'
                    /\ error'.token = currentToken'
                    /\ "expected" \in DOMAIN error'
      ]_vars

\* The longest prefix of s made of alphanumerics.
RECURSIVE AlnumPrefix(_)
AlnumPrefix(s) ==
    IF s # << >> /\ Head(s) \in Letters \cup Digits
    THEN << Head(s) >> \o AlnumPrefix(Tail(s))
    ELSE << >>

\* One String token per maximal alphanumeric run of s and one Space token
\* per space, in order.
RECURSIVE RunsAndSpaces(_)
RunsAndSpaces(s) ==
    IF s = << >>
    THEN << >>
    ELSE IF Head(s) = " "
    THEN << Token(<< " " >>, "SPACE") >> \o RunsAndSpaces(Tail(s))
    ELSE LET run == AlnumPrefix(s)
         IN  << Token(run, "STRING") >>
                \o RunsAndSpaces(SubSeq(s, Len(run) + 1, Len(s)))

\* The caller has pulled tokens from the canonical Lexer up to EndOfInput.
LexedToEnd ==
    /\ pc = "lexing"
    /\ output # << >>
    /\ output[Len(output)].tokenType = "EOF"

(***************************************************************************)
(* C13.  For every string of alphanumerics and spaces, the empty string    *)
(* included, the tokens returned before EndOfInput are exactly one String  *)
(* token per maximal alphanumeric run, holding that run, and one Space     *)
(* token per space, in input order.                                        *)
(***************************************************************************)
C13_RunsAndSpaces ==
    (LexedToEnd /\ OnlyOver(input, Letters \cup Digits \cup { " " })) =>
        SelectSeq(output, LAMBDA t : t.tokenType # "EOF") = RunsAndSpaces(input)

\* The kinds of the children of node n.
ChildKinds(n) == { n.children[i].nodeType : i \in 1..Len(n.children) }

(***************************************************************************)
(* C14.  In every returned tree each child of a Bold node is a Text or an  *)
(* Italic node and each child of an Italic node is a Text or a Bold node.  *)
(***************************************************************************)
C14_EmphasisChildren ==
    pc = "returned" =>
        LET nodes == NodesOf(result)
        IN  \A i \in 1..Len(nodes) :
                /\ nodes[i].nodeType = "Bold" =>
                        ChildKinds(nodes[i]) \subseteq { "StringNode", "Italic" }
                /\ nodes[i].nodeType = "Italic" =>
                        ChildKinds(nodes[i]) \subseteq { "StringNode", "Bold" }

\* A returned tree holds a Bold with a Text and an Italic child, or an
\* Italic with a Text and a Bold child, the nested span holding a Text.
C14_Witness ==
    /\ pc = "returned"
    /\ LET nodes == NodesOf(result)
       IN  /\ \E i \in 1..Len(nodes) :
                /\ nodes[i].nodeType = "Bold"
                /\ ChildKinds(nodes[i]) = { "StringNode", "Italic" }
           /\ \E i \in 1..Len(nodes) :
                /\ nodes[i].nodeType = "Italic"
                /\ ChildKinds(nodes[i]) = { "StringNode" }

\* The input starts with a code fence.
StartsWithFence == Len(input) >= 3 /\ SubSeq(input, 1, 3) = Fence

\* The alphanumeric run right after that fence, and what follows the run.
FenceLanguage == AlnumPrefix(SubSeq(input, 4, Len(input)))

AfterFenceLanguage == SubSeq(input, 4 + Len(FenceLanguage), Len(input))

\* The fence is followed by a String token and then a Newline token.
FenceWellOpened ==
    /\ FenceLanguage # << >>
    /\ AfterFenceLanguage # << >>
    /\ Head(AfterFenceLanguage) = "\n"

\* The lexer has a token to give after the fence and, when that is the
\* language name, after the name: no lone '*' stands there.
FenceOpeningLexes ==
    /\ ~LoneStarAt(3)
    /\ FenceLanguage # << >> => ~LoneStarAt(3 + Len(FenceLanguage))

(***************************************************************************)
(* C15.  Every Code node of a returned tree has exactly one child, a Text  *)
(* node, and its languageName is the text of the String token that came    *)
(* right after the opening fence.  A fence that is not followed by a       *)
(* String token and then a Newline token is a syntax error.                *)
(***************************************************************************)
C15_CodeNode ==
    /\ pc = "returned" =>
        LET nodes == NodesOf(result)
        IN  /\ \A i \in 1..Len(nodes) :
                    nodes[i].nodeType = "Code" =>
                        /\ Len(nodes[i].children) = 1
                        /\ nodes[i].children[1].nodeType = "StringNode"
                        /\ nodes[i].languageName # << >>
                        /\ OnlyOver(nodes[i].languageName, Letters \cup Digits)
            /\ StartsWithFence =>
                    /\ result.children[1].nodeType = "Code"
                    /\ result.children[1].languageName = FenceLanguage
    /\ (Finished /\ StartsWithFence /\ ~FenceWellOpened /\ FenceOpeningLexes) =>
            /\ pc = "threw"
            /\ error.kind = "syntax"
            /\ result = NoNode

\* A block with language "py" has been parsed; a fence whose language name
\* no newline follows is among the inputs.
C15_Witness ==
    /\ pc = "returned"
    /\ input = Fence \o << "p", "y", "\n", "a" >> \o Fence
    /\ result.children =
            << CodeNode(Token(Fence, "CODE"), << "p", "y" >>,
                        << TextNode(<< "a" >>) >>) >>
    /\ Fence \o << "p", "y" >> \o Fence \in TaggedCodeInputs

\* The number of '#' of the input from 0-based index p on.
RECURSIVE HashRunAt(_)
HashRunAt(p) ==
    IF p < Len(input) /\ input[p + 1] = "#" THEN 1 + HashRunAt(p + 1) ELSE 0

\* A run of exactly n '#' starts at index p: no '#' before it, none after it.
HashRunOf(n, p) ==
    /\ p < Len(input)
    /\ (p = 0 \/ input[p] # "#")
    /\ HashRunAt(p) = n

HeaderTokenOfLevel(n) ==
    CASE n = 1 -> "HEADER1"
      [] n = 2 -> "HEADER2"
      [] n = 3 -> "HEADER3"
      [] n = 4 -> "HEADER4"
      [] n = 5 -> "HEADER5"

(***************************************************************************)
(* C16.  With the cursor of the canonical Lexer at the start of a run of   *)
(* exactly n '#', 1 <= n <= 5, wherever the run stands in the input, one   *)
(* getNextToken call returns the token HEADERn whose text is the n '#',    *)
(* and consumes exactly n characters.                                      *)
(***************************************************************************)
C16_HeaderRun ==
    [][\A n \in 1..5 :
        (GetNextToken /\ HashRunOf(n, TextLength(output))) =>
            /\ error'.kind = "none"
            /\ output' = Append(output, Token(Hashes(n), HeaderTokenOfLevel(n)))
            /\ lexer'.currentToken = Token(Hashes(n), HeaderTokenOfLevel(n))
            /\ lexer'.currentChar =
                    (IF TextLength(output) + n < Len(input)
                     THEN input[TextLength(output) + n + 1]
                     ELSE NUL)
            /\ lexer'.currentChar # NUL => lexer'.position = lexer.position + n
      ]_vars

\* "a####a": the second call has returned HEADER4 for the run in the middle.
C16_Witness ==
    /\ pc = "lexing"
    /\ input = << "a", "#", "#", "#", "#", "a" >>
    /\ output = << Token(<< "a" >>, "STRING"), Token(Hashes(4), "HEADER4") >>
    /\ lexer.position = 5

(***************************************************************************)
(* C17.  With the cursor of the README variant's Lexer at the start of a   *)
(* run of exactly n '#', 1 <= n <= 5, one getNextToken call returns the    *)
(* token HEADERn holding the n '#', and the Map of the variant's           *)
(* headerStmt, which is the Map `headers`, gives the node kind Header-n    *)
(* for it.                                                                 *)
(***************************************************************************)
C17_ReadmeHeaderRun ==
    [][\A n \in 1..5 :
        (ReadmeGetNextToken /\ HashRunOf(n, TextLength(output))) =>
            /\ error'.kind = "none"
            /\ output' = Append(output, Token(Hashes(n), HeaderTokenOfLevel(n)))
            /\ headers[lexer'.currentToken.tokenType] = HeaderOfLevel(n)
      ]_vars

(***************************************************************************)
(* C18.  When rootStmt has returned, what it returned is the Document      *)
(* node, the parser's current token is EndOfInput and the lexer stands on  *)
(* the sentinel that advance sets past the last character of the input.    *)
(* When a lexical or syntax error has been raised, the caller has no node, *)
(* not even a partial Document.                                            *)
(***************************************************************************)
C18_DocumentOrNothing ==
    /\ pc = "returned" =>
            /\ result.nodeType = "RootNode"
            /\ result.token = RootNode.token
            /\ error = NoError
            /\ currentToken.tokenType = "EOF"
            /\ lexer.currentToken.tokenType = "EOF"
            /\ lexer.currentChar = NUL
    /\ pc = "threw" =>
            /\ error.kind # "none"
            /\ result = NoNode

\* A Document of several children has been returned at the end of the input.
C18_Witness ==
    /\ pc = "returned"
    /\ Len(result.children) >= 3
    /\ Len(input) >= 4
    /\ lexer.currentChar = NUL
    /\ currentToken = Token(<< NUL >>, "EOF")

\* The sum of the numbers of children of the nodes of a sequence.
RECURSIVE ChildrenIn(_)
ChildrenIn(nodes) ==
    IF nodes = << >>
    THEN 0
    ELSE Len(Head(nodes).children) + ChildrenIn(Tail(nodes))

(***************************************************************************)
(* C19.  In every returned tree all children of an UnorderedListRoot are   *)
(* UnorderedListItem nodes, such nodes are children of an                  *)
(* UnorderedListRoot only, and the roots hold one item per list marker     *)
(* consumed: as many items in all as the input has markers, and for items  *)
(* with nothing between them one root holding them all.                    *)
(***************************************************************************)
C19_ListRootHoldsItems ==
    pc = "returned" =>
        LET nodes == NodesOf(result)
            roots == OfKind(nodes, "UnorderedListRoot")
        IN  /\ \A i \in 1..Len(nodes) :
                    IF nodes[i].nodeType = "UnorderedListRoot"
                    THEN ChildKinds(nodes[i]) \subseteq { "UnorderedListItem" }
                    ELSE "UnorderedListItem" \notin ChildKinds(nodes[i])
            /\ result.nodeType # "UnorderedListItem"
            /\ ChildrenIn(roots) = CountOf(input, "-")
            /\ Len(OfKind(nodes, "UnorderedListItem")) = CountOf(input, "-")
            /\ input \in TightListInputs =>
                    /\ Len(result.children) = 1
                    /\ result.children[1].nodeType = "UnorderedListRoot"
                    /\ Len(result.children[1].children) = CountOf(input, "-")

\* "- a- a- b1": one root holding the three items has been returned.
C19_Witness ==
    /\ pc = "returned"
    /\ input = << "-", " ", "a", "-", " ", "a", "-", " ", "b", "1" >>
    /\ Len(result.children) = 1
    /\ result.children[1].nodeType = "UnorderedListRoot"
    /\ Len(result.children[1].children) = 3
    /\ result.children[1].children[3].children = << TextNode(<< "b", "1" >>) >>

(***************************************************************************)
(* C20.  For the empty input the first token the Lexer returns is          *)
(* EndOfInput, and rootStmt returns a Document with no children.           *)
(***************************************************************************)
C20_EmptyInput ==
    input = << >> =>
        /\ (pc = "lexing" /\ output # << >>) => output[1].tokenType = "EOF"
        /\ pc = "constructed" => currentToken.tokenType = "EOF"
        /\ Finished => (pc = "returned" /\ result = RootNode)

NodesHeld(frame) ==
    IF frame.fn \in { "innerBoldStmt", "innerItalicStmt" }
    THEN Flatten([k \in 1..Len(frame.local) |-> NodesOf(frame.local[k])])
    ELSE NodesOf(frame.local)

(***************************************************************************)
(* C22.  No tree returned by rootStmt holds a Void node at any depth.      *)
(* While the parse runs, the only Void nodes are the placeholders that a   *)
(* waiting rule starts from: they have no children and are inside no other *)
(* node.                                                                   *)
(***************************************************************************)
C22_NoVoidSurfaces ==
    /\ pc = "returned" =>
            LET nodes == NodesOf(result)
            IN  \A i \in 1..Len(nodes) : nodes[i].nodeType # "Void"
    /\ \A i \in 1..Len(stack) :
            LET nodes == NodesHeld(stack[i])
            IN  \A k \in 1..Len(nodes) :
                    nodes[k].nodeType = "Void" =>
                        /\ k = 1
                        /\ stack[i].fn \in { "formatStmt", "headerStmt" }
                        /\ nodes[k].children = << >>

\* formatStmt has returned what headerStmt built from its placeholder, and
\* waits again with a fresh one while the Document holds that header.
C22_Witness ==
    /\ pc = "running"
    /\ Len(stack) = 2
    /\ stack[2].fn = "formatStmt"
    /\ stack[2].local = VoidNode
    /\ stack[1].local.children # << >>
    /\ stack[1].local.children[1].nodeType = "Header1"

\* The index of the first c in s from index i on, Len(s) + 1 when there is none.
RECURSIVE IndexFrom(_, _, _)
IndexFrom(s, c, i) ==
    IF i > Len(s) \/ s[i] = c THEN i ELSE IndexFrom(s, c, i + 1)

\* The tags of a text in order, each with the characters that follow it up
\* to the next tag.
RECURSIVE TagsOf(_)
TagsOf(s) ==
    LET lt == IndexFrom(s, "<", 1)
        gt == IndexFrom(s, ">", lt)
        next == IndexFrom(s, "<", gt)
    IN  IF lt > Len(s)
        THEN << >>
        ELSE << [tag |-> SubSeq(s, lt + 1, gt - 1), text |-> SubSeq(s, gt + 1, next - 1)] >>
                \o TagsOf(SubSeq(s, next, Len(s)))

TagNames(s) == [i \in 1..Len(TagsOf(s)) |-> TagsOf(s)[i].tag]

\* The element a node kind is rendered as.
ElementOf(kind) ==
    CASE kind = "Bold" -> << "s", "t", "r", "o", "n", "g" >>
      [] kind = "Italic" -> << "i" >>
      [] kind = "Monospace" -> << "c", "o", "d", "e" >>
      [] kind = "Header1" -> << "h", "1" >>
      [] kind = "Header2" -> << "h", "2" >>
      [] kind = "Header3" -> << "h", "3" >>
      [] kind = "Header4" -> << "h", "4" >>
      [] kind = "Header5" -> << "h", "5" >>
      [] kind = "UnorderedListRoot" -> << "u", "l" >>
      [] kind = "UnorderedListItem" -> << "l", "i" >>

ElementKinds ==
    { "Bold", "Italic", "Monospace", "Header1", "Header2", "Header3", "Header4", "Header5", "UnorderedListRoot", "UnorderedListItem" }

Closing(tag) == << "/" >> \o tag

\* The tags a node must give: its element around those of its children, a
\* span for a Text, the document element around everything for the Document.
RECURSIVE TagsFor(_)
TagsFor(n) ==
    LET inner == Flatten([i \in 1..Len(n.children) |-> TagsFor(n.children[i])])
    IN  CASE n.nodeType = "RootNode" -> << << "h", "t", "m", "l" >> >> \o inner \o << Closing(<< "h", "t", "m", "l" >>) >>
          [] n.nodeType \in ElementKinds ->
                << ElementOf(n.nodeType) >> \o inner \o << Closing(ElementOf(n.nodeType)) >>
          [] n.nodeType = "StringNode" -> << << "s", "p", "a", "n" >>, Closing(<< "s", "p", "a", "n" >>) >>
          [] OTHER -> << >>

\* The tags the claim speaks of.
ClaimedTags ==
    LET open == { ElementOf(k) : k \in ElementKinds } \cup { << "h", "t", "m", "l" >>, << "s", "p", "a", "n" >> }
    IN  open \cup { Closing(t) : t \in open }

\* The texts of the Text nodes that are rendered, in order.
RECURSIVE TextsIn(_)
TextsIn(n) ==
    CASE n.nodeType = "StringNode" -> << n.token.tokenValue >>
      [] n.nodeType \in ElementKinds \cup { "RootNode" } ->
            Flatten([i \in 1..Len(n.children) |-> TextsIn(n.children[i])])
      [] OTHER -> << >>

\* What the spans of a text hold, in order.
SpansOf(s) ==
    LET spans == SelectSeq(TagsOf(s), LAMBDA t : t.tag = << "s", "p", "a", "n" >>)
    IN  [i \in 1..Len(spans) |-> spans[i].text]

\* s is t followed by spaces only.
IsPadded(s, t) ==
    /\ Len(s) >= Len(t)
    /\ SubSeq(s, 1, Len(t)) = t
    /\ \A i \in Len(t) + 1..Len(s) : s[i] = " "

(***************************************************************************)
(* C23.  The text toHtml returns for a parsed Document has exactly one     *)
(* <html> and one </html>, as its first and last tag; every Bold, Italic,  *)
(* Monospace, Header, UnorderedListRoot and UnorderedListItem node gives   *)
(* its opening tag, then the rendering of its children, then its closing   *)
(* tag, so that the tags are properly nested; and every rendered Text is   *)
(* inside a span of its own, unchanged, followed by indentation at most.   *)
(***************************************************************************)
C23_TagsNested ==
    pc = "rendered" =>
        LET names == TagNames(html)
            claimed == SelectSeq(names, LAMBDA t : t \in ClaimedTags)
        IN  /\ Len(SelectSeq(names, LAMBDA t : t = << "h", "t", "m", "l" >>)) = 1
            /\ Len(SelectSeq(names, LAMBDA t : t = Closing(<< "h", "t", "m", "l" >>))) = 1
            /\ names[1] = << "h", "t", "m", "l" >>
            /\ names[Len(names)] = Closing(<< "h", "t", "m", "l" >>)
            /\ claimed = TagsFor(result)
            /\ Len(SpansOf(html)) = Len(TextsIn(result))
            /\ \A i \in 1..Len(SpansOf(html)) :
                    IsPadded(SpansOf(html)[i], TextsIn(result)[i])

\* A Document with a bold span holding several elements has been rendered.
C23_Witness ==
    /\ pc = "rendered"
    /\ LET nodes == NodesOf(result)
       IN  \E i \in 1..Len(nodes) :
                /\ nodes[i].nodeType = "Bold"
                /\ Len(nodes[i].children) >= 2
    /\ Len(SpansOf(html)) >= 2
    /\ Len(html) > 40

\* The tokens a Lexer in state lex goes on to return, EndOfInput included.
RECURSIVE TokensFrom(_, _)
TokensFrom(in, lex) ==
    LET r == getNextToken(in, lex)
    IN  IF r.error.kind # "none"
        THEN << >>
        ELSE IF r.token.tokenType = "EOF"
        THEN << r.token >>
        ELSE << r.token >> \o TokensFrom(in, r.lexer)

Min(a, b) == IF a < b THEN a ELSE b

ParserExists == pc \in { "constructed", "running", "returned", "rendered" }

(***************************************************************************)
(* C24.  The Parser requests one token when it is constructed and one per  *)
(* successful eat: a step that requests none leaves the lexer and the      *)
(* current token alone, and a parse that returns has requested each token  *)
(* of the input once.  After construction the parser's current token is    *)
(* the token its Lexer returned last.                                      *)
(***************************************************************************)
C24_OneTokenAhead ==
    [][/\ ParserExists' => currentToken' = lexer'.currentToken
       /\ NewParser => calls' = 1
       /\ (ParserExists /\ calls' = calls /\ calls < MaxCalls) =>
                (lexer' = lexer /\ currentToken' = currentToken)
       /\ (ParserExists /\ lexer' # lexer /\ calls < MaxCalls) => calls' > calls
       /\ pc' = "returned" =>
                calls' = Min(MaxCalls, Len(TokensFrom(input, NewLexer(input))))
      ]_vars

\* "a_a_" has been parsed with five requests: String, Italic, String, Italic
\* and EndOfInput.
C24_Witness ==
    /\ pc = "returned"
    /\ input = << "a", "_", "a", "_" >>
    /\ calls = 5
    /\ currentToken = lexer.currentToken
    /\ currentToken.tokenType = "EOF"

\* The token kinds formatStmt has a rule for.
BlockKinds ==
    { "STRING", "SPACE", "MONOSPACE", "CODE", "ITALIC", "BOLD", "NEWLINE",
      "UNORDEREDLI" } \cup DOMAIN headers

\* The input holds three '-' in a row.
HasLineBreak ==
    \E i \in 1..Len(input) - 2 : SubSeq(input, i, i + 2) = << "-", "-", "-" >>

(***************************************************************************)
(* C25.  When formatStmt starts on a token of a kind it has no rule for,   *)
(* the parse ends there with a syntax error on that token and no tree; it  *)
(* does so on every LineBreak token, and no input holding '---' parses to  *)
(* a Document.                                                             *)
(***************************************************************************)
C25_UnknownKindRejected ==
    [][/\ (/\ pc = "running"
           /\ Top.fn = "formatStmt"
           /\ Top.at = "start"
           /\ currentToken.tokenType \notin BlockKinds) =>
                /\ pc' = "threw"
                /\ error' = [kind |-> "syntax", token |-> currentToken]
                /\ result' = NoNode
                /\ lexer' = lexer
       /\ pc' = "returned" => ~HasLineBreak
      ]_vars

\* "a---": formatStmt has thrown on the LineBreak token after the Text.
C25_Witness ==
    /\ pc = "threw"
    /\ input = << "a", "-", "-", "-" >>
    /\ error = [kind |-> "syntax", token |-> Token(<< "-", "-", "-" >>, "LINEBREAK")]
    /\ currentToken.tokenType = "LINEBREAK"
    /\ result = NoNode

\* The Header nodes of a tree.
HeaderNodes(n) == SelectSeq(NodesOf(n), LAMBDA c : c.nodeType \in HeaderNodeTypes)

\* The '#' of the input that a space follows: the ends of the runs of '#'
\* that have their separating space.
SpacedRuns == { i \in 1..Len(input) - 1 : input[i] = "#" /\ input[i + 1] = " " }

(***************************************************************************)
(* C26.  When headerStmt starts on a Header token and the token after it   *)
(* is not a Space token, the parse ends there with a syntax error.  A      *)
(* returned tree has one Header node per run of '#' of the input, and      *)
(* every such run is followed by a space.                                  *)
(***************************************************************************)
C26_HeaderNeedsSpace ==
    [][/\ (/\ pc = "running"
           /\ Top.fn = "headerStmt"
           /\ Top.at = "start"
           /\ currentToken.tokenType \in DOMAIN headers
           /\ lexer.currentChar # " "
           /\ ~(lexer.currentChar = "*" /\ LoneStarAt(lexer.position))) =>
                /\ pc' = "threw"
                /\ error'.kind = "syntax"
                /\ error'.token.tokenType # "SPACE"
                /\ result' = NoNode
       /\ pc' = "returned" =>
                /\ \A i \in 1..Len(input) :
                        input[i] = "#" =>
                            (i < Len(input) /\ input[i + 1] \in { "#", " " })
                /\ Len(HeaderNodes(result')) = Cardinality(SpacedRuns)
      ]_vars

\* "##a": headerStmt has thrown on the String token after the Header token.
C26_Witness ==
    /\ pc = "threw"
    /\ input = << "#", "#", "a" >>
    /\ error = [kind |-> "syntax", token |-> Token(<< "a" >>, "STRING")]
    /\ result = NoNode

(***************************************************************************)
(* C27.  Parsing terminates: every getNextToken call that returns a token  *)
(* before the end of the input moves the cursor, so that EndOfInput is     *)
(* reached after finitely many calls, and the parse ends with a Document   *)
(* or with a lexical or syntax error, never with the call stack exhausted  *)
(* by a recursion without bound.                                           *)
(***************************************************************************)
C27_Terminates ==
    [][/\ (GetNextToken /\ lexer.currentChar # NUL /\ error'.kind = "none") =>
                \/ lexer'.position > lexer.position
                \/ lexer'.currentChar = NUL
       /\ pc' = "threw" => error'.kind \in { "lexical", "syntax" }
      ]_vars

\* The fields of a Lexer on the input are well placed.
WellPlaced(lex) ==
    /\ lex.position >= 0
    /\ lex.position <= Len(input) - 1
    /\ lex.currentChar = NUL \/ lex.currentChar = input[lex.position + 1]

(***************************************************************************)
(* C28.  On a non-empty input, whatever calls are made on the canonical    *)
(* Lexer, directly or by the Parser: position never decreases and stays    *)
(* between 0 and input.length - 1, currentChar is the end sentinel or      *)
(* input[position], and once it is the sentinel it stays the sentinel.     *)
(***************************************************************************)
C28_CursorMovesForward ==
    [][(input # << >> /\ pc' # "readme") =>
            /\ WellPlaced(lexer)
            /\ WellPlaced(lexer')
            /\ lexer'.position >= lexer.position
            /\ lexer.currentChar = NUL => lexer'.currentChar = NUL
            /\ WellPlaced(twin.lexer')
            /\ twin.lexer'.position >= twin.lexer.position
      ]_vars

\* "a**a": the third call has set the sentinel and left position on the
\* last character.
C28_Witness ==
    /\ pc = "lexing"
    /\ input = << "a", "*", "*", "a" >>
    /\ calls = 3
    /\ lexer.position = 3
    /\ lexer.currentChar = NUL
    /\ lexer.currentToken = Token(<< "a" >>, "STRING")

\* The characters the lexer has a token for.
Recognized == Letters \cup Digits \cup { " ", "_", "*", "-", "#", Backtick, "\n" }

\* The texts of the tokens returned before EndOfInput, end to end.
TextLexed ==
    LET tokens == SelectSeq(output, LAMBDA t : t.tokenType # "EOF")
    IN  Flatten([i \in 1..Len(tokens) |-> tokens[i].tokenValue])

(***************************************************************************)
(* C29.  For a non-empty input of recognized characters that the canonical *)
(* Lexer takes to EndOfInput without an error, the texts of the tokens     *)
(* returned before EndOfInput, end to end, are the input: nothing is       *)
(* skipped, doubled or made up, also when a token of several characters    *)
(* ends the input.                                                         *)
(***************************************************************************)
C29_TokensSpellInput ==
    (LexedToEnd /\ input # << >> /\ OnlyOver(input, Recognized)) =>
        /\ TextLexed = input
        /\ \A i \in 1..Len(output) :
                output[i].tokenType # "EOF" => output[i].tokenValue # << >>

\* "a" and three '-' have been lexed to String, LineBreak and EndOfInput.
C29_Witness ==
    /\ LexedToEnd
    /\ input = << "a", "-", "-", "-" >>
    /\ Len(output) = 3
    /\ output[2] = Token(<< "-", "-", "-" >>, "LINEBREAK")
    /\ TextLexed = input

\* The kind the rule on top of the stack eats first at its next step, for
\* the steps that start with an eat of a fixed kind: the closing delimiter
\* of a span, of a monospace run and of a fenced block.
EatsNext ==
    CASE Top.fn = "boldStmt" /\ Top.at = "inner" -> "BOLD"
      [] Top.fn = "italicStmt" /\ Top.at = "inner" -> "ITALIC"
      [] Top.fn = "monoSpaceStmt" /\ Top.at = "ret" -> "MONOSPACE"
      [] Top.fn = "codeStmt" /\ Top.at = "ret" -> "CODE"
      [] OTHER -> "none"

\* The next step is an eat of a kind the current token does not have.
MismatchedEat ==
    /\ pc = "running"
    /\ EatsNext # "none"
    /\ currentToken.tokenType # EatsNext

(***************************************************************************)
(* C30.  An eat of a kind the current token does not have raises the       *)
(* syntax error on that token and changes nothing else: the Lexer is not   *)
(* called, so its position, currentChar and currentToken and the parser's  *)
(* current token are what they were before.                                *)
(***************************************************************************)
C30_MismatchChangesNothing ==
    [][MismatchedEat =>
            /\ pc' = "threw"
            /\ error' = [kind |-> "syntax", token |-> currentToken]
            /\ lexer' = lexer
            /\ currentToken' = currentToken
            /\ calls' = calls
            /\ result' = NoNode
      ]_vars

\* "_a": italicStmt's closing eat has thrown on EndOfInput after three
\* requests, the lexer standing where the last successful eat left it.
C30_Witness ==
    /\ pc = "threw"
    /\ input = << "_", "a" >>
    /\ calls = 3
    /\ error = [kind |-> "syntax", token |-> Token(<< NUL >>, "EOF")]
    /\ currentToken = Token(<< NUL >>, "EOF")
    /\ lexer.currentToken = currentToken

====
